---- MODULE Spec2Model ----
(***************************************************************************)
(* Model of the LAD logging-configuration generator (LadLoggingConfig in   *)
(* Diagnostic/Utils/lad_logging_config.py), of its XML merge helper        *)
(* copy_sub_elems, and of the VM-backup helpers MachineIdentity and        *)
(* WAAgentUtil (VMBackup/main).                                            *)
(*                                                                         *)
(* A Python str is a sequence of symbols; each symbol is a TLA+ string     *)
(* standing for one character or for one literal run of template text, so  *)
(* that str.format, +, join, split and replace are sequence operations.    *)
(* '' is <<>>.  None is NoneVal.                                           *)
(***************************************************************************)
EXTENDS Integers, Sequences, FiniteSets, TLC

VARIABLES
    syslogEvents,             \* self._syslogEvents
    fileLogs,                 \* self._fileLogs
    sinksConfig,              \* self._sinksConfig (the registry's contents)
    file_keys,                \* iteration order of the dict self._file_table_map
    oms_rsyslog_config,       \* self._oms_rsyslog_config
    oms_syslog_ng_config,     \* self._oms_syslog_ng_config
    oms_mdsd_syslog_config,   \* self._oms_mdsd_syslog_config
    oms_mdsd_filelog_config,  \* self._oms_mdsd_filelog_config
    lastRet,                  \* per method: outcome of its latest call
    firstReturn,              \* per method: the value its first returning call gave
    repeated,                 \* the latest call returned, as an earlier call of its method had
    generated,                \* the latest call ran its generation logic
    dst_xml,                  \* copy_sub_elems: destination tree (root element)
    src_xml,                  \* copy_sub_elems: source tree (root element)
    copyRet,                  \* outcome of the latest copy_sub_elems call
    ncopies,                  \* number of copy_sub_elems calls made
    sys_file,                 \* /var/lib/waagent/HostingEnvironmentConfig.xml
    store_file,               \* MachineIdentity.store_identity_file
    idRet,                    \* the latest MachineIdentity call and its outcome
    lastSave,                 \* what the latest save_identity call found
    ExtensionName,            \* WAAgentUtil.__ExtensionName__ (module global)
    default_name,             \* default of AddExtensionEvent's parameter name
    forwarded,                \* the calls made to waagent.AddExtensionEvent
    initName,                 \* the name the latest InitExtensionEventLog call was given
    lastAdd                   \* the latest AddExtensionEvent call

genVars == <<syslogEvents, fileLogs, sinksConfig, file_keys, oms_rsyslog_config,
             oms_syslog_ng_config, oms_mdsd_syslog_config, oms_mdsd_filelog_config,
             lastRet, firstReturn, repeated, generated>>
xmlVars == <<dst_xml, src_xml, copyRet, ncopies>>
idVars == <<sys_file, store_file, idRet, lastSave>>
evtVars == <<ExtensionName, default_name, forwarded, initName, lastAdd>>
vars == <<syslogEvents, fileLogs, sinksConfig, file_keys, oms_rsyslog_config,
          oms_syslog_ng_config, oms_mdsd_syslog_config, oms_mdsd_filelog_config,
          lastRet, firstReturn, repeated, generated, dst_xml, src_xml, copyRet, ncopies,
          sys_file, store_file, idRet, lastSave,
          ExtensionName, default_name, forwarded, initName, lastAdd>>

----------------------------------------------------------------------------
\* Bounds of the explored inputs.
MaxPairs == 2    \* entries of syslogEventConfiguration
MaxSinks == 2    \* names in a comma-separated sinks string
MaxFiles == 2    \* entries of fileLogs
MaxCopies == 2   \* copy_sub_elems calls in one run
MaxRoles == 2    \* Role elements in the system identity document
MaxEvents == 2   \* events forwarded to the agent in one run

----------------------------------------------------------------------------
\* Python values.

NoneVal == [some |-> FALSE, val |-> <<>>]
Some(v) == [some |-> TRUE, val |-> v]
\* Python truth value of an Optional[str]: None and '' are false.
Falsy(x) == ~x.some \/ x.val = <<>>

\* Outcome of a call: a returned value or a raised exception with its message.
Return(v) == [kind |-> "return", exc |-> "", val |-> v]
Raise(e, msg) == [kind |-> "raise", exc |-> e, val |-> msg]
NotCalled == [kind |-> "none", exc |-> "", val |-> <<>>]

\* sep.join(parts)
RECURSIVE Join(_, _)
Join(parts, sep) ==
    IF parts = <<>> THEN <<>>
    ELSE IF Len(parts) = 1 THEN parts[1]
    ELSE parts[1] \o sep \o Join(Tail(parts), sep)

\* s.split(sep) for a one-symbol separator: ''.split(',') is [''].
RECURSIVE Split(_, _)
Split(s, sep) ==
    IF \A i \in 1..Len(s) : s[i] # sep THEN << s >>
    ELSE LET k == CHOOSE i \in 1..Len(s) :
                      s[i] = sep /\ \A j \in 1..(i - 1) : s[j] # sep
         IN  << SubSeq(s, 1, k - 1) >> \o Split(SubSeq(s, k + 1, Len(s)), sep)

\* s.replace(old, new) for one-symbol old and new.
Replace(s, old, new) == [i \in 1..Len(s) |-> IF s[i] = old THEN new ELSE s[i]]

\* Code points of the characters file paths are built from (str comparison).
CharCode(c) == CASE c = "." -> 46 [] c = "/" -> 47 [] c = "a" -> 97 [] c = "b" -> 98

\* s < t on Python strings.
RECURSIVE StrLess(_, _)
StrLess(s, t) ==
    IF t = <<>> THEN FALSE
    ELSE IF s = <<>> THEN TRUE
    ELSE IF s[1] = t[1] THEN StrLess(Tail(s), Tail(t))
    ELSE CharCode(s[1]) < CharCode(t[1])

\* sorted(S) for a set of strings.
RECURSIVE SortedKeys(_)
SortedKeys(S) ==
    IF S = {} THEN <<>>
    ELSE LET m == CHOOSE x \in S : \A y \in S \ {x} : StrLess(x, y)
         IN  << m >> \o SortedKeys(S \ {m})

----------------------------------------------------------------------------
\* Templates (module level, lines 26-58).

mdsd_sources_events_config_template(sources, events, eh_urls) ==
    << "\n<MonitoringManagement eventVersion=\"2\" namespace=\"\" timestamp=\"2014-12-01T20:00:00.000\" version=\"1.0\">\n",
       "  <Sources>\n" >>
    \o sources
    \o << "  </Sources>\n\n", "  <Events>\n", "    <MdsdEvents>\n" >>
    \o events
    \o << "    </MdsdEvents>\n", "  </Events>\n\n", "  <EventStreamingAnnotations>\n" >>
    \o eh_urls
    \o << "  </EventStreamingAnnotations>\n", "</MonitoringManagement>\n" >>

mdsd_per_source_config_template(name) ==
    << "    <Source name=\"" >> \o name \o << "\" dynamic_schema=\"true\" />\n" >>

mdsd_per_event_source_config_template(source, routeevents) ==
    << "      <MdsdEventSource source=\"" >> \o source \o << "\">\n        " >>
    \o routeevents
    \o << "\n      </MdsdEventSource>\n" >>

mdsd_per_routeevent_config_template(event_name, opt_store_type) ==
    << "    <RouteEvent dontUsePerNDayTable=\"true\" eventName=\"" >> \o event_name
    \o << "\" priority=\"High\" " >> \o opt_store_type \o << " />\n" >>

mdsd_per_eh_url_template(eh_name, eh_url) ==
    << "    <EventStreamingAnnotation name=\"" >> \o eh_name
    \o << "\">\n       <EventPublisher>\n         <Content/>\n         <Key><![CDATA[" >>
    \o eh_url
    \o << "]]></Key>\n       </EventPublisher>\n    </EventStreamingAnnotation>\n" >>

----------------------------------------------------------------------------
\* Name mapper (lines 391-434).

syslog_name_to_rsyslog_name_map ==
    ("LOG_AUTH" :> "auth") @@ ("LOG_AUTHPRIV" :> "authpriv") @@ ("LOG_CRON" :> "cron")
    @@ ("LOG_DAEMON" :> "daemon") @@ ("LOG_FTP" :> "ftp") @@ ("LOG_KERN" :> "kern")
    @@ ("LOG_LOCAL0" :> "local0") @@ ("LOG_LOCAL1" :> "local1")
    @@ ("LOG_LOCAL2" :> "local2") @@ ("LOG_LOCAL3" :> "local3")
    @@ ("LOG_LOCAL4" :> "local4") @@ ("LOG_LOCAL5" :> "local5")
    @@ ("LOG_LOCAL6" :> "local6") @@ ("LOG_LOCAL7" :> "local7")
    @@ ("LOG_LPR" :> "lpr") @@ ("LOG_MAIL" :> "mail") @@ ("LOG_NEWS" :> "news")
    @@ ("LOG_SYSLOG" :> "syslog") @@ ("LOG_USER" :> "user") @@ ("LOG_UUCP" :> "uucp")
    @@ ("LOG_EMERG" :> "emerg") @@ ("LOG_ALERT" :> "alert") @@ ("LOG_CRIT" :> "crit")
    @@ ("LOG_ERR" :> "err") @@ ("LOG_WARNING" :> "warning")
    @@ ("LOG_NOTICE" :> "notice") @@ ("LOG_INFO" :> "info") @@ ("LOG_DEBUG" :> "debug")

InvalidSyslogNameMsg(syslog_name) == << "Invalid syslog name given: ", syslog_name >>

syslog_name_to_rsyslog_name(syslog_name) ==
    IF syslog_name \notin DOMAIN syslog_name_to_rsyslog_name_map
    THEN Raise("LadLoggingConfigException", InvalidSyslogNameMsg(syslog_name))
    ELSE Return(<< syslog_name_to_rsyslog_name_map[syslog_name] >>)

----------------------------------------------------------------------------
\* Constructor (lines 118-141): fields derived from the policies.

\* self._fac_sev_map: the mapping, as its (facility, severity) pairs in the
\* order the dict iterates them; None when no policy is given.
fac_sev_map ==
    IF syslogEvents.given THEN Some(syslogEvents.syslogEventConfiguration) ELSE NoneVal

\* Variant testing "is None" instead of "not".
syslog_disabled_IsNone == ~fac_sev_map.some

\* self._syslog_disabled = not self._fac_sev_map
syslog_disabled == Falsy(fac_sev_map)

\* Truth value of self._fileLogs (None, False and [] are false).
fileLogs_truthy == fileLogs.given /\ fileLogs.entries # <<>>

\* Keys of the dicts built from the entries.
file_key_set == {fileLogs.entries[i].file : i \in DOMAIN fileLogs.entries}

\* Index of the entry a dict built from the list keeps for a key: the last one.
LastEntryFor(f) ==
    CHOOSE i \in DOMAIN fileLogs.entries :
        /\ fileLogs.entries[i].file = f
        /\ \A j \in DOMAIN fileLogs.entries : fileLogs.entries[j].file = f => j <= i

\* self._file_table_map
file_table_map ==
    [f \in file_key_set |->
        LET entry == fileLogs.entries[LastEntryFor(f)]
        IN  IF entry.hasTable THEN entry.table ELSE <<>>]

\* self._file_sinks_map
file_sinks_map ==
    [f \in file_key_set |->
        LET entry == fileLogs.entries[LastEntryFor(f)]
        IN  IF entry.hasSinks THEN entry.sinks ELSE <<>>]

----------------------------------------------------------------------------
\* Collaborators outside the file.

NoSink == [defined |-> FALSE, type |-> "", hasSasURL |-> FALSE, sasURL |-> <<>>]

\* SinkConfiguration.get_sink_by_name: the definition, or None.
get_sink_by_name(sink_name) ==
    IF sink_name \in DOMAIN sinksConfig THEN sinksConfig[sink_name] ELSE NoSink

\* omsagent_util.get_syslog_ng_src_name: the fixed source identifier.
get_syslog_ng_src_name == << "src" >>

----------------------------------------------------------------------------
\* rsyslog and syslog-ng fragments (lines 145-186).

\* Variant with facility and severity swapped.
RsyslogLine_Swapped(fac, sev) == sev \o << "." >> \o fac \o << "  @127.0.0.1:%SYSLOG_PORT%" >>

\* The format string of line 161.
RsyslogLine(fac, sev) == fac \o << "." >> \o sev \o << "  @127.0.0.1:%SYSLOG_PORT%" >>

SyslogNgLine(fac, sev) ==
    << "log { source(" >> \o get_syslog_ng_src_name \o << "); filter(f_LAD_oms_f_" >>
    \o fac \o << "); filter(f_LAD_oms_ml_" >> \o sev
    \o << "); destination(d_LAD_oms); };" >>

\* The generator expression handed to join: one line per pair, in iteration
\* order; the first name outside the table raises (facility before severity).
RECURSIVE RsyslogLines(_)
RsyslogLines(pairs) ==
    IF pairs = <<>> THEN Return(<<>>)
    ELSE LET fac == syslog_name_to_rsyslog_name(pairs[1][1])
             sev == syslog_name_to_rsyslog_name(pairs[1][2])
         IN  IF fac.kind = "raise" THEN fac
             ELSE IF sev.kind = "raise" THEN sev
             ELSE LET rest == RsyslogLines(Tail(pairs))
                  IN  IF rest.kind = "raise" THEN rest
                      ELSE Return(<< RsyslogLine(fac.val, sev.val) >> \o rest.val)

RECURSIVE SyslogNgLines(_)
SyslogNgLines(pairs) ==
    IF pairs = <<>> THEN Return(<<>>)
    ELSE LET fac == syslog_name_to_rsyslog_name(pairs[1][1])
             sev == syslog_name_to_rsyslog_name(pairs[1][2])
         IN  IF fac.kind = "raise" THEN fac
             ELSE IF sev.kind = "raise" THEN sev
             ELSE LET rest == SyslogNgLines(Tail(pairs))
                  IN  IF rest.kind = "raise" THEN rest
                      ELSE Return(<< SyslogNgLine(fac.val, sev.val) >> \o rest.val)

\* Body of the "if not self._oms_rsyslog_config" block (lines 155-163).
generate_oms_rsyslog_config ==
    IF syslog_disabled THEN Return(<<>>)
    ELSE LET lines == RsyslogLines(fac_sev_map.val)
         IN  IF lines.kind = "raise" THEN lines
             ELSE Return(Join(lines.val, << "\n" >>) \o << "\n" >>)

\* Body of the "if not self._oms_syslog_ng_config" block (lines 175-185).
generate_oms_syslog_ng_config ==
    IF syslog_disabled THEN Return(<<>>)
    ELSE LET lines == SyslogNgLines(fac_sev_map.val)
         IN  IF lines.kind = "raise" THEN lines
             ELSE Return(Join(lines.val, << "\n" >>) \o << "\n" >>)

----------------------------------------------------------------------------
\* Sink routes (lines 225-252).

SinkNotDefinedMsg(sink_name) ==
    << "Sink name \"" >> \o sink_name \o << "\" is not defined in sinksConfig" >>
SinkTypeNotDefinedMsg(sink_name) ==
    << "Sink type for sink \"" >> \o sink_name \o << "\" is not defined in sinksConfig" >>
SasURLNotSpecifiedMsg(sink_name) ==
    << "sasURL is not specified for EventHub sink_name=" >> \o sink_name
SinkTypeNotSupportedMsg(sink_type, sink_name) ==
    << sink_type, " sink type (for sink_name=" >> \o sink_name \o << ") is not supported" >>
ReservedSinkNameMsg ==
    << "'LinuxSyslog' can't be used as a sink name. It's reserved for default Azure Table name for syslog events." >>
NeitherTableNorSinksMsg(file_key) ==
    << "Neither \"table\" nor \"sinks\" defined for file \"" >> \o file_key \o << "\"" >>

\* Variant without the sasURL test of lines 244-245.
generate_routeevent_and_eh_url_for_extra_sink_NoSasURLTest(sink_name) ==
    LET sink == get_sink_by_name(sink_name)
        sink_type == sink.type
    IN  IF ~sink.defined
        THEN Raise("LadLoggingConfigException", SinkNotDefinedMsg(sink_name))
        ELSE IF sink_type = ""
        THEN Raise("LadLoggingConfigException", SinkTypeNotDefinedMsg(sink_name))
        ELSE IF sink_type = "JsonBlob"
        THEN Return(<< mdsd_per_routeevent_config_template(
                           sink_name, << "storeType=\"JsonBlob\"" >>),
                       <<>> >>)
        ELSE IF sink_type = "EventHub"
        THEN Return(<< mdsd_per_routeevent_config_template(
                           sink_name, << "storeType=\"local\"" >>),
                       mdsd_per_eh_url_template(sink_name, sink.sasURL) >>)
        ELSE Raise("LadLoggingConfigException",
                   SinkTypeNotSupportedMsg(sink_type, sink_name))

\* __generate_routeevent_and_eh_url_for_extra_sink: the pair
\* <<RouteEvent element, EventStreamingAnnotation element or ''>>, or a raise.
generate_routeevent_and_eh_url_for_extra_sink(sink_name) ==
    LET sink == get_sink_by_name(sink_name)
        sink_type == sink.type
    IN  IF ~sink.defined
        THEN Raise("LadLoggingConfigException", SinkNotDefinedMsg(sink_name))
        ELSE IF sink_type = ""
        THEN Raise("LadLoggingConfigException", SinkTypeNotDefinedMsg(sink_name))
        ELSE IF sink_type = "JsonBlob"
        THEN Return(<< mdsd_per_routeevent_config_template(
                           sink_name, << "storeType=\"JsonBlob\"" >>),
                       <<>> >>)
        ELSE IF sink_type = "EventHub"
        THEN IF ~sink.hasSasURL
             THEN Raise("LadLoggingConfigException", SasURLNotSpecifiedMsg(sink_name))
             ELSE Return(<< mdsd_per_routeevent_config_template(
                                sink_name, << "storeType=\"local\"" >>),
                            mdsd_per_eh_url_template(sink_name, sink.sasURL) >>)
        ELSE Raise("LadLoggingConfigException",
                   SinkTypeNotSupportedMsg(sink_type, sink_name))

----------------------------------------------------------------------------
\* mdsd syslog document (lines 188-223).

\* Variant comparing against a differently cased name.
IsReservedSinkName_WrongCase(sink_name) == sink_name = << "linuxsyslog" >>

\* The test of line 213.
IsReservedSinkName(sink_name) == sink_name = << "LinuxSyslog" >>

\* Variant putting each new route in front of the routes gathered so far.
RECURSIVE syslog_sinks_loop_Prepend(_, _, _)
syslog_sinks_loop_Prepend(sink_names, syslog_routeevents, syslog_eh_urls) ==
    IF sink_names = <<>> THEN Return(<< syslog_routeevents, syslog_eh_urls >>)
    ELSE IF IsReservedSinkName(sink_names[1])
    THEN Raise("LadLoggingConfigException", ReservedSinkNameMsg)
    ELSE LET r == generate_routeevent_and_eh_url_for_extra_sink(sink_names[1])
         IN  IF r.kind = "raise" THEN r
             ELSE syslog_sinks_loop_Prepend(Tail(sink_names),
                                            r.val[1] \o syslog_routeevents,
                                            syslog_eh_urls \o r.val[2])

\* The loop of lines 212-218 over the remaining names, with the strings
\* accumulated so far.
RECURSIVE syslog_sinks_loop(_, _, _)
syslog_sinks_loop(sink_names, syslog_routeevents, syslog_eh_urls) ==
    IF sink_names = <<>> THEN Return(<< syslog_routeevents, syslog_eh_urls >>)
    ELSE IF IsReservedSinkName(sink_names[1])
    THEN Raise("LadLoggingConfigException", ReservedSinkNameMsg)
    ELSE LET r == generate_routeevent_and_eh_url_for_extra_sink(sink_names[1])
         IN  IF r.kind = "raise" THEN r
             ELSE syslog_sinks_loop(Tail(sink_names),
                                    syslog_routeevents \o r.val[1],
                                    syslog_eh_urls \o r.val[2])

\* Lines 205-223 of __generate_oms_mdsd_syslog_config: the document for an
\* enabled policy.
generate_oms_mdsd_syslog_document ==
    LET default_routeevent ==
            mdsd_per_routeevent_config_template(<< "LinuxSyslog" >>, <<>>)
        acc == IF syslogEvents.hasSinks
               THEN syslog_sinks_loop(Split(syslogEvents.sinks, ","),
                                      default_routeevent, <<>>)
               ELSE Return(<< default_routeevent, <<>> >>)
    IN  IF acc.kind = "raise" THEN acc
        ELSE Return(mdsd_sources_events_config_template(
                 mdsd_per_source_config_template(<< "mdsd.syslog" >>),
                 mdsd_per_event_source_config_template(<< "mdsd.syslog" >>, acc.val[1]),
                 acc.val[2]))

\* Variant without the early return of lines 202-203.
generate_oms_mdsd_syslog_config_NoShortCircuit == generate_oms_mdsd_syslog_document

\* __generate_oms_mdsd_syslog_config
generate_oms_mdsd_syslog_config ==
    IF syslog_disabled THEN Return(<<>>) ELSE generate_oms_mdsd_syslog_document

----------------------------------------------------------------------------
\* mdsd filelog document (lines 254-292).

\* Line 279: 'mdsd.filelog' + the path with every '/' replaced by '.'.
source_name_of(file_key) == << "mdsd.filelog" >> \o Replace(file_key, "/", ".")

\* The loop of lines 285-288.
RECURSIVE filelog_sinks_loop(_, _, _)
filelog_sinks_loop(sink_names, per_file_routeevents, filelogs_eh_urls) ==
    IF sink_names = <<>> THEN Return(<< per_file_routeevents, filelogs_eh_urls >>)
    ELSE LET r == generate_routeevent_and_eh_url_for_extra_sink(sink_names[1])
         IN  IF r.kind = "raise" THEN r
             ELSE filelog_sinks_loop(Tail(sink_names),
                                     per_file_routeevents \o r.val[1],
                                     filelogs_eh_urls \o r.val[2])

\* Variant iterating the dict itself, without sorted().
filelog_visit_order_Unsorted == file_keys

\* The order in which line 276 visits the files.
filelog_visit_order == SortedKeys(DOMAIN file_table_map)

\* The loop of lines 276-290 over the remaining files, with the three strings
\* accumulated so far.
RECURSIVE filelog_files_loop(_, _, _, _)
filelog_files_loop(keys, filelogs_sources, filelogs_mdsd_event_sources, filelogs_eh_urls) ==
    IF keys = <<>>
    THEN Return(<< filelogs_sources, filelogs_mdsd_event_sources, filelogs_eh_urls >>)
    ELSE LET file_key == keys[1]
             table == file_table_map[file_key]
             sinks == file_sinks_map[file_key]
             source_name == source_name_of(file_key)
             table_route == IF table # <<>>
                            THEN mdsd_per_routeevent_config_template(table, <<>>)
                            ELSE <<>>
             acc == IF sinks # <<>>
                    THEN filelog_sinks_loop(Split(sinks, ","), table_route, filelogs_eh_urls)
                    ELSE Return(<< table_route, filelogs_eh_urls >>)
         IN  IF table = <<>> /\ sinks = <<>>
             THEN Raise("LadLoggingConfigException", NeitherTableNorSinksMsg(file_key))
             ELSE IF acc.kind = "raise" THEN acc
             ELSE filelog_files_loop(
                      Tail(keys),
                      filelogs_sources \o mdsd_per_source_config_template(source_name),
                      filelogs_mdsd_event_sources
                          \o mdsd_per_event_source_config_template(source_name, acc.val[1]),
                      acc.val[2])

\* __generate_oms_mdsd_filelog_config
generate_oms_mdsd_filelog_config ==
    IF ~fileLogs_truthy THEN Return(<<>>)
    ELSE LET acc == filelog_files_loop(filelog_visit_order, <<>>, <<>>, <<>>)
         IN  IF acc.kind = "raise" THEN acc
             ELSE Return(mdsd_sources_events_config_template(
                             acc.val[1], acc.val[2], acc.val[3]))

----------------------------------------------------------------------------
\* fluentd configs (lines 294-388).

fluentd_syslog_src_config ==
    << "\n<source>\n  type syslog\n  port %SYSLOG_PORT%\n  bind 127.0.0.1\n  protocol_type udp\n  tag mdsd.syslog\n</source>\n",
       "\n<filter mdsd.syslog.**>\n  type record_transformer\n  enable_ruby\n  <record>\n  ...\n  </record>\n  remove_keys host,ident,pid,message,source_host\n</filter>\n" >>

fluentd_tail_src_config_template(file_paths) ==
    << "\n<source>\n  @type tail\n  path " >> \o file_paths
    \o << "\n  pos_file /var/opt/microsoft/omsagent/LAD/tmp/filelogs.pos\n  tag mdsd.filelog.*\n  format none\n  message_key Msg\n</source>\n",
          "\n<filter mdsd.filelog.**>\n  @type record_transformer\n  <record>\n    FileTag ${tag_suffix[2]}\n  </record>\n</filter>\n" >>

fluentd_out_mdsd_config_template(tag_regex_cfg_line) ==
    << "\n<match mdsd.**>\n    type mdsd\n    log_level warn\n    djsonsocket /var/run/mdsd/lad_mdsd_djson.socket\n    acktimeoutms 5000\n" >>
    \o tag_regex_cfg_line
    \o << "    num_threads 1\n    buffer_chunk_limit 1000k\n    buffer_type file\n    buffer_path /var/opt/microsoft/omsagent/state/out_mdsd*.buffer\n    buffer_queue_limit 128\n    flush_interval 10s\n    retry_limit 3\n    retry_wait 10s\n</match>\n" >>

oms_fluentd_syslog_src_config ==
    Return(IF syslog_disabled THEN <<>> ELSE fluentd_syslog_src_config)

oms_fluentd_filelog_src_config ==
    IF ~fileLogs_truthy THEN Return(<<>>)
    ELSE Return(fluentd_tail_src_config_template(Join(file_keys, << "," >>)))

oms_fluentd_out_mdsd_config ==
    Return(fluentd_out_mdsd_config_template(
               IF syslog_disabled THEN <<>>
               ELSE << "    mdsd_tag_regex_patterns [ \"^mdsd\\\\.syslog\" ]\n" >>))

----------------------------------------------------------------------------
\* Variant that appends each generation to the field ("+=" on every call).
Memoized_Append(cache, gen) ==
    IF gen.kind = "raise" THEN [cache |-> cache, out |-> gen, ran |-> TRUE]
    ELSE LET c == Some((IF cache.some THEN cache.val ELSE <<>>) \o gen.val)
         IN  [cache |-> c, out |-> Return(c.val), ran |-> TRUE]

\* Variant generating only while the field is None ("if self._x is None").
Memoized_IsNone(cache, gen) ==
    IF ~cache.some /\ gen.kind = "raise"
    THEN [cache |-> cache, out |-> gen, ran |-> TRUE]
    ELSE LET c == IF ~cache.some THEN Some(gen.val) ELSE cache
         IN  [cache |-> c, out |-> Return(c.val), ran |-> ~cache.some]

\* The memoizing getters (lines 145-196, 254-262): "if not self._x: self._x =
\* <generate>; return self._x".  A raise inside the generation leaves the
\* assignment undone.  Memoized gives the field after the call, the call's
\* outcome, and whether the call entered the "if not" block.
Memoized(cache, gen) ==
    IF Falsy(cache) /\ gen.kind = "raise"
    THEN [cache |-> cache, out |-> gen, ran |-> TRUE]
    ELSE LET c == IF Falsy(cache) THEN Some(gen.val) ELSE cache
         IN  [cache |-> c, out |-> Return(c.val), ran |-> Falsy(cache)]

Methods ==
    { "get_oms_rsyslog_config", "get_oms_syslog_ng_config",
      "get_oms_mdsd_syslog_config", "get_oms_mdsd_filelog_config",
      "get_oms_fluentd_syslog_src_config", "get_oms_fluentd_filelog_src_config",
      "get_oms_fluentd_out_mdsd_config" }

inputVars == <<syslogEvents, fileLogs, sinksConfig, file_keys>>
memoVars == <<oms_rsyslog_config, oms_syslog_ng_config, oms_mdsd_syslog_config,
              oms_mdsd_filelog_config>>

\* The caller's view of a call of method m that ended with outcome out; ran
\* tells whether the call computed the artifact.
Observe(m, out, ran) ==
    /\ lastRet' = [lastRet EXCEPT ![m] = out]
    /\ firstReturn' = [firstReturn EXCEPT
                          ![m] = IF ~@.some /\ out.kind = "return" THEN Some(out.val) ELSE @]
    /\ repeated' = (firstReturn[m].some /\ out.kind = "return")
    /\ generated' = ran

get_oms_rsyslog_config ==
    LET r == Memoized(oms_rsyslog_config, generate_oms_rsyslog_config)
    IN  /\ oms_rsyslog_config' = r.cache
        /\ Observe("get_oms_rsyslog_config", r.out, r.ran)
        /\ UNCHANGED <<inputVars, oms_syslog_ng_config, oms_mdsd_syslog_config,
                       oms_mdsd_filelog_config, xmlVars, idVars, evtVars>>

get_oms_syslog_ng_config ==
    LET r == Memoized(oms_syslog_ng_config, generate_oms_syslog_ng_config)
    IN  /\ oms_syslog_ng_config' = r.cache
        /\ Observe("get_oms_syslog_ng_config", r.out, r.ran)
        /\ UNCHANGED <<inputVars, oms_rsyslog_config, oms_mdsd_syslog_config,
                       oms_mdsd_filelog_config, xmlVars, idVars, evtVars>>

get_oms_mdsd_syslog_config ==
    LET r == Memoized(oms_mdsd_syslog_config, generate_oms_mdsd_syslog_config)
    IN  /\ oms_mdsd_syslog_config' = r.cache
        /\ Observe("get_oms_mdsd_syslog_config", r.out, r.ran)
        /\ UNCHANGED <<inputVars, oms_rsyslog_config, oms_syslog_ng_config,
                       oms_mdsd_filelog_config, xmlVars, idVars, evtVars>>

get_oms_mdsd_filelog_config ==
    LET r == Memoized(oms_mdsd_filelog_config, generate_oms_mdsd_filelog_config)
    IN  /\ oms_mdsd_filelog_config' = r.cache
        /\ Observe("get_oms_mdsd_filelog_config", r.out, r.ran)
        /\ UNCHANGED <<inputVars, oms_rsyslog_config, oms_syslog_ng_config,
                       oms_mdsd_syslog_config, xmlVars, idVars, evtVars>>

get_oms_fluentd_syslog_src_config ==
    /\ Observe("get_oms_fluentd_syslog_src_config", oms_fluentd_syslog_src_config, TRUE)
    /\ UNCHANGED <<inputVars, memoVars, xmlVars, idVars, evtVars>>

get_oms_fluentd_filelog_src_config ==
    /\ Observe("get_oms_fluentd_filelog_src_config", oms_fluentd_filelog_src_config, TRUE)
    /\ UNCHANGED <<inputVars, memoVars, xmlVars, idVars, evtVars>>

get_oms_fluentd_out_mdsd_config ==
    /\ Observe("get_oms_fluentd_out_mdsd_config", oms_fluentd_out_mdsd_config, TRUE)
    /\ UNCHANGED <<inputVars, memoVars, xmlVars, idVars, evtVars>>

----------------------------------------------------------------------------
\* XML merge helper (lines 437-450).  An element is its tag, a name attribute
\* telling elements apart, and its children; a tree is its root element.  A
\* position is the sequence of child indices leading from the root.

NotFound == [found |-> FALSE, pos |-> <<>>]

\* ElementTree.find(path) for a path of tags 'a/b': the first element, in
\* document order, reached from the root through children tagged a, then b.
RECURSIVE find(_, _)
find(elem, path) ==
    IF path = <<>> THEN [found |-> TRUE, pos |-> <<>>]
    ELSE LET hits == {i \in DOMAIN elem.children :
                         /\ elem.children[i].tag = path[1]
                         /\ find(elem.children[i], Tail(path)).found}
         IN  IF hits = {} THEN NotFound
             ELSE LET i == CHOOSE x \in hits : \A y \in hits : x <= y
                  IN  [found |-> TRUE,
                       pos |-> << i >> \o find(elem.children[i], Tail(path)).pos]

RECURSIVE ElemAt(_, _)
ElemAt(elem, pos) ==
    IF pos = <<>> THEN elem ELSE ElemAt(elem.children[pos[1]], Tail(pos))

\* Variant inserting the sub-elements in front of the existing children.
RECURSIVE AppendAt_Front(_, _, _)
AppendAt_Front(elem, pos, sub_elems) ==
    IF pos = <<>> THEN [elem EXCEPT !.children = sub_elems \o @]
    ELSE [elem EXCEPT !.children[pos[1]] = AppendAt_Front(@, Tail(pos), sub_elems)]

\* The tree after the loop of lines 449-450 appended sub_elems, one by one,
\* to the element at pos.
RECURSIVE AppendAt(_, _, _)
AppendAt(elem, pos, sub_elems) ==
    IF pos = <<>> THEN [elem EXCEPT !.children = @ \o sub_elems]
    ELSE [elem EXCEPT !.children[pos[1]] = AppendAt(@, Tail(pos), sub_elems)]

\* copy_sub_elems(dst_xml, src_xml, path): the destination tree after the
\* call and the call's outcome.  With dst_elem None the first append raises.
copy_sub_elems_effect(dst, src, path) ==
    LET dst_elem == find(dst, path)
        src_elem == find(src, path)
    IN  IF ~src_elem.found THEN [dst |-> dst, out |-> Return(<<>>)]
        ELSE LET sub_elems == ElemAt(src, src_elem.pos).children
             IN  IF sub_elems = <<>> THEN [dst |-> dst, out |-> Return(<<>>)]
                 ELSE IF ~dst_elem.found
                 THEN [dst |-> dst,
                       out |-> Raise("AttributeError",
                                     << "'NoneType' object has no attribute 'append'" >>)]
                 ELSE [dst |-> AppendAt(dst, dst_elem.pos, sub_elems),
                       out |-> Return(<<>>)]

\* The paths copy_source_mdsdevent_eh_url_elems passes (lines 471-477).
CopiedPaths ==
    { << "Sources" >>, << "Events", "MdsdEvents" >>, << "EventStreamingAnnotations" >> }

copy_sub_elems ==
    \E path \in CopiedPaths :
        /\ ncopies < MaxCopies
        /\ dst_xml' = copy_sub_elems_effect(dst_xml, src_xml, path).dst
        /\ copyRet' = [out |-> copy_sub_elems_effect(dst_xml, src_xml, path).out,
                       path |-> path]
        /\ ncopies' = ncopies + 1
        /\ UNCHANGED <<src_xml, genVars, idVars, evtVars>>

----------------------------------------------------------------------------
\* MachineIdentity (VMBackup/main/MachineIdentity.py).  The system identity
\* file holds an XML document, seen here as minidom sees it: well-formed or
\* not, and its Role elements in document order, each with or without a guid
\* attribute.  The store file holds a str.

NoFile == [exists |-> FALSE, content |-> <<>>]
StrFile(s) == [exists |-> TRUE, content |-> s]

NoDocument == [wellformed |-> FALSE, roles |-> <<>>]
Document(roles) == [wellformed |-> TRUE, roles |-> roles]
NoSystemFile == [exists |-> FALSE, doc |-> NoDocument]
SystemFile(doc) == [exists |-> TRUE, doc |-> doc]

\* Element.getAttribute("guid"): the attribute's value, '' when it is missing.
getAttribute_guid(role) == IF role.hasGuid THEN role.guid ELSE <<>>

\* current_identity (lines 28-42) applied to the system identity file f.
current_identity_of(f) ==
    IF ~f.exists THEN Return(NoneVal)
    ELSE IF ~f.doc.wellformed
    THEN Raise("ExpatError", << "not well-formed (invalid token)" >>)
    ELSE IF f.doc.roles = <<>>
    THEN Raise("IndexError", << "list index out of range" >>)
    ELSE Return(Some(getAttribute_guid(f.doc.roles[1])))

\* Variant opening the store file without truncating it (mode 'r+').
open_w_NoTruncate(f) == StrFile(f.content)

\* open(path, 'w'): the file exists afterwards and is empty; the handle is at
\* position 0.
open_w(f) == StrFile(<<>>)

\* file.write(s) on a handle at position 0: s replaces the first Len(s)
\* characters, whatever lies beyond stays.
file_write(f, s) == StrFile(s \o SubSeq(f.content, Len(s) + 1, Len(f.content)))

\* stored_identity (lines 56-67) applied to the store file f.
stored_identity_of(f) == IF f.exists THEN Return(Some(f.content)) ELSE Return(NoneVal)

\* save_identity (lines 44-54): the store file after the call and the call's
\* outcome.  The file is opened for writing before the current identity is
\* read; an exception of current_identity leaves through the finally block.
save_identity_effect(store, sys) ==
    LET opened == open_w(store)
        machine_identity == current_identity_of(sys)
    IN  IF machine_identity.kind = "raise"
        THEN [store |-> opened, out |-> machine_identity]
        ELSE IF machine_identity.val.some
        THEN [store |-> file_write(opened, machine_identity.val.val),
              out |-> Return(NoneVal)]
        ELSE [store |-> opened, out |-> Return(NoneVal)]

NoIdCall == [op |-> "none", out |-> NotCalled, sysExisted |-> FALSE]
NoSave == [ran |-> FALSE, sysExisted |-> FALSE, identity |-> NotCalled,
           storedBefore |-> NotCalled]

current_identity ==
    /\ idRet' = [op |-> "current_identity", out |-> current_identity_of(sys_file),
                 sysExisted |-> sys_file.exists]
    /\ UNCHANGED <<sys_file, store_file, lastSave, genVars, xmlVars, evtVars>>

save_identity ==
    LET r == save_identity_effect(store_file, sys_file)
    IN  /\ store_file' = r.store
        /\ idRet' = [op |-> "save_identity", out |-> r.out,
                     sysExisted |-> sys_file.exists]
        /\ lastSave' = [ran |-> TRUE, sysExisted |-> sys_file.exists,
                        identity |-> current_identity_of(sys_file),
                        storedBefore |-> stored_identity_of(store_file)]
        /\ UNCHANGED <<sys_file, genVars, xmlVars, evtVars>>

stored_identity ==
    /\ idRet' = [op |-> "stored_identity", out |-> stored_identity_of(store_file),
                 sysExisted |-> sys_file.exists]
    /\ UNCHANGED <<sys_file, store_file, lastSave, genVars, xmlVars, evtVars>>

\* System identity files: none, an ill-formed one, and documents of up to
\* MaxRoles Role elements.
GuidA == << "1", "a", "-", "4", "c" >>
GuidB == << "2", "b" >>
Roles ==
    { [hasGuid |-> FALSE, guid |-> <<>>],
      [hasGuid |-> TRUE, guid |-> GuidA],
      [hasGuid |-> TRUE, guid |-> GuidB] }
SystemFiles ==
    {NoSystemFile, SystemFile(NoDocument)}
    \cup {SystemFile(Document(r)) : r \in UNION {[1..k -> Roles] : k \in 0..MaxRoles}}

\* The waagent (or anything else on the machine) replaces or removes the
\* system identity file.
ChangeSystemFile ==
    /\ \E f \in SystemFiles : f # sys_file /\ sys_file' = f
    /\ UNCHANGED <<store_file, idRet, lastSave, genVars, xmlVars, evtVars>>

IdIdle ==
    /\ sys_file = NoSystemFile
    /\ store_file = NoFile
    /\ idRet = NoIdCall
    /\ lastSave = NoSave

----------------------------------------------------------------------------
\* WAAgentUtil event logging (VMBackup/main/Utils/WAAgentUtil.py, lines
\* 99-111).  A name is an Optional[str]; an omitted argument takes the
\* parameter's default, which Python evaluates once, when the def statement
\* runs.

\* An omitted argument; blank fills the unused field with a value of the
\* parameter's type.
Omitted(blank) == [given |-> FALSE, val |-> blank]
Given(v) == [given |-> TRUE, val |-> v]

\* Line 99, and the default of line 103 taken from it when the module loads.
ExtensionName_AtImport == NoneVal

\* InitExtensionEventLog (lines 100-101): the assignment binds a name local
\* to the function, since there is no global statement; the module-level
\* __ExtensionName__ keeps its value.
InitExtensionEventLog_global(global_name, name) == global_name

\* The value a parameter takes: the argument, or the default when omitted.
Argument(arg, default) == IF arg.given THEN arg.val ELSE default

\* AddExtensionEvent (lines 103-111): the calls made to
\* waagent.AddExtensionEvent after the call.
AddExtensionEvent_effect(calls, name_default, name, op, isSuccess, message) ==
    LET n == Argument(name, name_default)
    IN  IF n.some
        THEN Append(calls, [name |-> n.val,
                            op |-> Argument(op, "Enable"),
                            isSuccess |-> Argument(isSuccess, FALSE),
                            message |-> Argument(message, NoneVal)])
        ELSE calls

ExtensionNames == { << "VMBackup" >>, << "VMSnapshot" >> }
NameArguments == {Omitted(NoneVal), Given(NoneVal)} \cup {Given(Some(n)) : n \in ExtensionNames}

NoAdd == [called |-> FALSE, name |-> Omitted(NoneVal), initName |-> NoneVal, before |-> 0]

InitExtensionEventLog ==
    \E name \in {NoneVal} \cup {Some(n) : n \in ExtensionNames} :
        /\ ExtensionName' = InitExtensionEventLog_global(ExtensionName, name)
        /\ initName' = name
        /\ UNCHANGED <<default_name, forwarded, lastAdd, genVars, xmlVars, idVars>>

AddExtensionEvent ==
    \E name \in NameArguments, op \in {Omitted(""), Given("Disable")},
       isSuccess \in {Omitted(FALSE), Given(TRUE)},
       message \in {Omitted(NoneVal), Given(Some(<< "done" >>))} :
        /\ Len(forwarded) < MaxEvents
        /\ forwarded' = AddExtensionEvent_effect(forwarded, default_name, name,
                                                 op, isSuccess, message)
        /\ lastAdd' = [called |-> TRUE, name |-> name, initName |-> initName,
                       before |-> Len(forwarded)]
        /\ UNCHANGED <<ExtensionName, default_name, initName, genVars, xmlVars, idVars>>

\* The module as loaded: no name initialised, no event logged.
EvtIdle ==
    /\ ExtensionName = ExtensionName_AtImport
    /\ default_name = ExtensionName_AtImport
    /\ forwarded = <<>>
    /\ initName = NoneVal
    /\ lastAdd = NoAdd

----------------------------------------------------------------------------
\* Inputs the generator is constructed from.

SyslogNotGiven ==
    [given |-> FALSE, syslogEventConfiguration |-> <<>>, hasSinks |-> FALSE, sinks |-> <<>>]

SyslogPolicy(cfg, hasSinks, sinks) ==
    [given |-> TRUE, syslogEventConfiguration |-> cfg, hasSinks |-> hasSinks, sinks |-> sinks]

FacilityNames == {"LOG_USER", "LOG_CRON", "log_user"}
SeverityNames == {"LOG_ERR", "NONE"}

\* Mappings of at most MaxPairs facilities, in every iteration order.
FacSevMaps ==
    {m \in UNION {[1..k -> FacilityNames \X SeverityNames] : k \in 0..MaxPairs} :
        \A i, j \in DOMAIN m : i # j => m[i][1] # m[j][1]}

SinkA == << "A" >>
SinkB == << "B" >>
LinuxSyslog == << "LinuxSyslog" >>

\* Comma-separated lists of 1..MaxSinks names, the empty name included.
SinkStrings ==
    {Join(l, << "," >>) :
        l \in UNION {[1..k -> {<<>>, SinkA, SinkB, LinuxSyslog}] : k \in 1..MaxSinks}}

JsonBlobSink == [defined |-> TRUE, type |-> "JsonBlob", hasSasURL |-> FALSE, sasURL |-> <<>>]
EventHubSink(url) == [defined |-> TRUE, type |-> "EventHub", hasSasURL |-> TRUE, sasURL |-> url]
EventHubNoUrlSink == [defined |-> TRUE, type |-> "EventHub", hasSasURL |-> FALSE, sasURL |-> <<>>]
NoTypeSink == [defined |-> TRUE, type |-> "", hasSasURL |-> FALSE, sasURL |-> <<>>]
OtherTypeSink == [defined |-> TRUE, type |-> "Other", hasSasURL |-> FALSE, sasURL |-> <<>>]

UrlA == << "https://a.servicebus.windows.net/eh?sig=1" >>
UrlB == << "https://b.servicebus.windows.net/eh?sig=2" >>

\* The registry holding the given definitions of A, B and LinuxSyslog (NoSink:
\* the name is not registered).
RegistryOf(a, b, l) ==
    LET all == (SinkA :> a) @@ (SinkB :> b) @@ (LinuxSyslog :> l)
    IN  [n \in {m \in DOMAIN all : all[m].defined} |-> all[n]]

Registries ==
    {RegistryOf(a, b, NoSink) :
        a \in {NoSink, JsonBlobSink, EventHubSink(UrlA), EventHubNoUrlSink,
               NoTypeSink, OtherTypeSink},
        b \in {NoSink, EventHubSink(UrlB)}}
    \cup {RegistryOf(JsonBlobSink, EventHubSink(UrlB), JsonBlobSink)}

FileLogsNotGiven == [given |-> FALSE, entries |-> <<>>]

FilePaths == { << "/", "a", ".", "b" >>, << "/", "a", "/", "b" >>, << "/", "b" >> }

\* What an entry gives besides its file: table and sinks, each optional.
EntryOptions ==
    { [hasTable |-> FALSE, table |-> <<>>, hasSinks |-> FALSE, sinks |-> <<>>],
      [hasTable |-> TRUE, table |-> << "T" >>, hasSinks |-> FALSE, sinks |-> <<>>],
      [hasTable |-> FALSE, table |-> <<>>, hasSinks |-> TRUE, sinks |-> << "B", ",", "A" >>],
      [hasTable |-> TRUE, table |-> << "T" >>, hasSinks |-> TRUE, sinks |-> << "B", ",", "A" >>],
      [hasTable |-> TRUE, table |-> << "T" >>, hasSinks |-> TRUE, sinks |-> <<>>] }

Reverse(s) == [i \in 1..Len(s) |-> s[Len(s) + 1 - i]]

\* fileLogs lists of 1..MaxFiles entries with distinct paths, listed in
\* descending path order.
FileLogLists ==
    UNION { LET order == Reverse(SortedKeys(S))
            IN  { [i \in 1..Len(order) |->
                      [file |-> order[i], hasTable |-> opt[i].hasTable,
                       table |-> opt[i].table, hasSinks |-> opt[i].hasSinks,
                       sinks |-> opt[i].sinks]] :
                  opt \in [1..Len(order) -> EntryOptions] } :
            S \in {T \in SUBSET FilePaths : T # {} /\ Cardinality(T) <= MaxFiles} }

\* Every order a dict may iterate a key set in.
Orders(S) ==
    {o \in [1..Cardinality(S) -> S] : \A i, j \in DOMAIN o : i # j => o[i] # o[j]}

EmptyTree == [tag |-> "none", name |-> "", children |-> <<>>]

InitMemo ==
    /\ oms_rsyslog_config = NoneVal
    /\ oms_syslog_ng_config = NoneVal
    /\ oms_mdsd_syslog_config = NoneVal
    /\ oms_mdsd_filelog_config = NoneVal
    /\ lastRet = [m \in Methods |-> NotCalled]
    /\ firstReturn = [m \in Methods |-> NoneVal]
    /\ repeated = FALSE
    /\ generated = FALSE

XmlIdle ==
    /\ dst_xml = EmptyTree
    /\ src_xml = EmptyTree
    /\ copyRet = [out |-> NotCalled, path |-> <<>>]
    /\ ncopies = 0

\* Policies without sinks: every facility/severity mapping.
InitNames ==
    /\ syslogEvents \in {SyslogNotGiven} \cup {SyslogPolicy(m, FALSE, <<>>) : m \in FacSevMaps}
    /\ fileLogs \in {FileLogsNotGiven, [given |-> TRUE, entries |-> <<>>]}
    /\ sinksConfig = RegistryOf(JsonBlobSink, EventHubSink(UrlB), NoSink)
    /\ file_keys = <<>>

\* Syslog policies with sinks, over the registries.
InitSyslogSinks ==
    /\ syslogEvents \in {SyslogPolicy(m, TRUE, s) :
                            m \in {<<>>, << <<"LOG_USER", "LOG_ERR">> >>}, s \in SinkStrings}
    /\ fileLogs = FileLogsNotGiven
    /\ sinksConfig \in Registries
    /\ file_keys = <<>>

\* File-log policies, beside an enabled syslog policy.
InitFileLogs ==
    /\ syslogEvents = SyslogPolicy(<< <<"LOG_USER", "LOG_ERR">> >>, TRUE, SinkA)
    /\ fileLogs \in {[given |-> TRUE, entries |-> l] : l \in FileLogLists}
    /\ sinksConfig \in {RegistryOf(a, EventHubSink(UrlB), NoSink) :
                           a \in {JsonBlobSink, EventHubNoUrlSink}}
    /\ file_keys \in Orders(file_key_set)

Init ==
    /\ (InitNames \/ InitSyslogSinks \/ InitFileLogs)
    /\ InitMemo
    /\ XmlIdle
    /\ IdIdle
    /\ EvtIdle

Next ==
    \/ get_oms_rsyslog_config
    \/ get_oms_syslog_ng_config
    \/ get_oms_mdsd_syslog_config
    \/ get_oms_mdsd_filelog_config
    \/ get_oms_fluentd_syslog_src_config
    \/ get_oms_fluentd_filelog_src_config
    \/ get_oms_fluentd_out_mdsd_config

Spec == Init /\ [][Next]_vars

\* Trees the helper is applied to.
Leaf(tag, name) == [tag |-> tag, name |-> name, children |-> <<>>]
Node(tag, children) == [tag |-> tag, name |-> "", children |-> children]

\* What a root may hold for Sources: nothing, or one Sources element with
\* zero to two Source children.
SourcesParts(n1, n2) ==
    { <<>>,
      << Node("Sources", <<>>) >>,
      << Node("Sources", << Leaf("Source", n1) >>) >>,
      << Node("Sources", << Leaf("Source", n1), Leaf("Source", n2) >>) >> }

\* What a root may hold for Events: nothing, an Events element without
\* MdsdEvents, one with an empty or a filled MdsdEvents, or two Events
\* elements of which only the second holds MdsdEvents.
EventsParts(n1, n2) ==
    { <<>>,
      << Node("Events", <<>>) >>,
      << Node("Events", << Node("MdsdEvents", <<>>) >>) >>,
      << Node("Events", << Node("MdsdEvents", << Leaf("MdsdEventSource", n1) >>) >>) >>,
      << Node("Events", <<>>),
         Node("Events", << Node("MdsdEvents", << Leaf("MdsdEventSource", n1),
                                                 Leaf("MdsdEventSource", n2) >>) >>) >> }

Trees(n1, n2) ==
    {Node("MonitoringManagement", s \o e) :
        s \in SourcesParts(n1, n2), e \in EventsParts(n1, n2)}

InitXml ==
    /\ dst_xml \in Trees("d1", "d2")
    /\ src_xml \in Trees("s1", "s2")
    /\ copyRet = [out |-> NotCalled, path |-> <<>>]
    /\ ncopies = 0
    /\ syslogEvents = SyslogNotGiven
    /\ fileLogs = FileLogsNotGiven
    /\ sinksConfig = RegistryOf(NoSink, NoSink, NoSink)
    /\ file_keys = <<>>
    /\ InitMemo
    /\ IdIdle
    /\ EvtIdle

NextXml == copy_sub_elems

SpecXml == InitXml /\ [][NextXml]_vars

\* Generator instances for the study of the caches: every facility/severity
\* mapping, with and without a sink, beside no, an empty and a one-file
\* fileLogs policy, over a registry that does or does not define the sink.
InitCache ==
    /\ syslogEvents \in {SyslogNotGiven}
                         \cup {SyslogPolicy(m, FALSE, <<>>) : m \in FacSevMaps}
                         \cup {SyslogPolicy(m, TRUE, SinkA) : m \in FacSevMaps}
    /\ fileLogs \in {FileLogsNotGiven, [given |-> TRUE, entries |-> <<>>],
                     [given |-> TRUE,
                      entries |-> << [file |-> << "/", "b" >>, hasTable |-> TRUE,
                                      table |-> << "T" >>, hasSinks |-> FALSE,
                                      sinks |-> <<>>] >>]}
    /\ sinksConfig \in {RegistryOf(a, EventHubSink(UrlB), NoSink) : a \in {NoSink, JsonBlobSink}}
    /\ file_keys \in Orders(file_key_set)
    /\ InitMemo
    /\ XmlIdle
    /\ IdIdle
    /\ EvtIdle

SpecCache == InitCache /\ [][Next]_vars

\* MachineIdentity on a machine where nothing has been persisted yet.
InitId ==
    /\ sys_file \in SystemFiles
    /\ store_file = NoFile
    /\ idRet = NoIdCall
    /\ lastSave = NoSave
    /\ syslogEvents = SyslogNotGiven
    /\ fileLogs = FileLogsNotGiven
    /\ sinksConfig = RegistryOf(NoSink, NoSink, NoSink)
    /\ file_keys = <<>>
    /\ InitMemo
    /\ XmlIdle
    /\ EvtIdle

NextId ==
    \/ current_identity
    \/ save_identity
    \/ stored_identity
    \/ ChangeSystemFile

SpecId == InitId /\ [][NextId]_vars

\* WAAgentUtil, freshly imported.
InitEvt ==
    /\ EvtIdle
    /\ syslogEvents = SyslogNotGiven
    /\ fileLogs = FileLogsNotGiven
    /\ sinksConfig = RegistryOf(NoSink, NoSink, NoSink)
    /\ file_keys = <<>>
    /\ InitMemo
    /\ XmlIdle
    /\ IdIdle

NextEvt ==
    \/ InitExtensionEventLog
    \/ AddExtensionEvent

SpecEvt == InitEvt /\ [][NextEvt]_vars

----------------------------------------------------------------------------
\* Properties.

Called(m) == lastRet[m].kind # "none"

\* Syslog collection is off: no policy, or an empty mapping.
SyslogOff == ~syslogEvents.given \/ syslogEvents.syslogEventConfiguration = <<>>

\* The names the policy's sinks field lists.
ListedSinks ==
    IF syslogEvents.given /\ syslogEvents.hasSinks
    THEN Split(syslogEvents.sinks, ",") ELSE <<>>

\* A name the registry defines as a JsonBlob sink or as an EventHub sink with
\* a sasURL.
ValidSink(n) ==
    /\ n \in DOMAIN sinksConfig
    /\ \/ sinksConfig[n].type = "JsonBlob"
       \/ sinksConfig[n].type = "EventHub" /\ sinksConfig[n].hasSasURL

\* The message the claimed case of an invalid sink name carries.
ExpectedSinkError(n) ==
    IF n \notin DOMAIN sinksConfig THEN SinkNotDefinedMsg(n)
    ELSE IF sinksConfig[n].type = "" THEN SinkTypeNotDefinedMsg(n)
    ELSE IF sinksConfig[n].type \notin {"JsonBlob", "EventHub"}
    THEN SinkTypeNotSupportedMsg(sinksConfig[n].type, n)
    ELSE SasURLNotSpecifiedMsg(n)

\* C1 (as stated): with syslog collection off, get_oms_mdsd_syslog_config
\* still generates and returns a non-empty document.
C1_DisabledStillGenerates ==
    (SyslogOff /\ Called("get_oms_mdsd_syslog_config"))
        => /\ lastRet["get_oms_mdsd_syslog_config"].kind = "return"
           /\ lastRet["get_oms_mdsd_syslog_config"].val # <<>>

\* C1 (amended): with syslog collection off (no policy, or an empty mapping),
\* get_oms_mdsd_syslog_config short-circuits: it returns the empty string,
\* whatever the sinks field and the registry hold.
C1_DisabledReturnsEmpty ==
    (SyslogOff /\ Called("get_oms_mdsd_syslog_config"))
        => /\ lastRet["get_oms_mdsd_syslog_config"] = Return(<<>>)
           /\ Falsy(oms_mdsd_syslog_config)

C1_Witness ==
    /\ syslogEvents.given
    /\ syslogEvents.syslogEventConfiguration = <<>>
    /\ syslogEvents.hasSinks
    /\ syslogEvents.sinks = SinkA \o << "," >> \o LinuxSyslog
    /\ lastRet["get_oms_mdsd_syslog_config"] = Return(<<>>)

\* C2: for every produce method, every call that returns gives the same
\* string as the first call of that method that returned, whatever calls of
\* the other methods came in between.
C2_RepeatCallsIdentical ==
    \A m \in Methods :
        lastRet[m].kind = "return" => firstReturn[m] = Some(lastRet[m].val)

C2_Witness ==
    /\ repeated
    /\ \A m \in Methods : lastRet[m].kind = "return" /\ lastRet[m].val # <<>>
    /\ oms_mdsd_filelog_config.some
    /\ oms_rsyslog_config.some

\* C3 (as stated): whenever the sinks list contains 'LinuxSyslog',
\* get_oms_mdsd_syslog_config raises the reserved-name error.
C3_AlwaysReservedNameError ==
    ( /\ \E i \in DOMAIN ListedSinks : ListedSinks[i] = LinuxSyslog
      /\ Called("get_oms_mdsd_syslog_config") )
        => lastRet["get_oms_mdsd_syslog_config"]
               = Raise("LadLoggingConfigException", ReservedSinkNameMsg)

\* C3 (amended): for an enabled syslog policy whose sinks list contains
\* 'LinuxSyslog', get_oms_mdsd_syslog_config raises the configuration error
\* and stores no XML; the error is the reserved-name error exactly when every
\* name listed before the first 'LinuxSyslog' is validly defined.
C3_ReservedNameWhenReached ==
    ( /\ ~SyslogOff
      /\ \E i \in DOMAIN ListedSinks : ListedSinks[i] = LinuxSyslog
      /\ Called("get_oms_mdsd_syslog_config") )
        => LET k == CHOOSE i \in DOMAIN ListedSinks :
                        /\ ListedSinks[i] = LinuxSyslog
                        /\ \A j \in 1..(i - 1) : ListedSinks[j] # LinuxSyslog
               r == lastRet["get_oms_mdsd_syslog_config"]
           IN  /\ r.kind = "raise"
               /\ r.exc = "LadLoggingConfigException"
               /\ oms_mdsd_syslog_config = NoneVal
               /\ (r.val = ReservedSinkNameMsg
                       <=> \A j \in 1..(k - 1) : ValidSink(ListedSinks[j]))

C3_Witness ==
    /\ ~SyslogOff
    /\ ListedSinks = << SinkA, LinuxSyslog >>
    /\ ValidSink(SinkA)
    /\ LinuxSyslog \in DOMAIN sinksConfig
    /\ lastRet["get_oms_mdsd_syslog_config"]
           = Raise("LadLoggingConfigException", ReservedSinkNameMsg)


\* Names probed against the registry.
ProbedSinkNames == {<<>>, SinkA, SinkB, LinuxSyslog}

\* The names a file-log entry lists.
FileSinks(f) == IF file_sinks_map[f] = <<>> THEN <<>> ELSE Split(file_sinks_map[f], ",")

\* C4: resolving a sink route raises LadLoggingConfigException when the name
\* is not registered, has no type, has a type other than JsonBlob/EventHub,
\* or is an EventHub without sasURL; the XML generator that hit it returns no
\* output and its memoized field stays unset.
C4_SinkErrorsAbortGeneration ==
    /\ \A n \in ProbedSinkNames :
           ~ValidSink(n) =>
               generate_routeevent_and_eh_url_for_extra_sink(n)
                   = Raise("LadLoggingConfigException", ExpectedSinkError(n))
    /\ ( /\ ~SyslogOff
         /\ Called("get_oms_mdsd_syslog_config")
         /\ \E k \in DOMAIN ListedSinks :
                ~ValidSink(ListedSinks[k]) /\ \A j \in 1..k : ListedSinks[j] # LinuxSyslog )
           => LET k == CHOOSE i \in DOMAIN ListedSinks :
                           /\ ~ValidSink(ListedSinks[i])
                           /\ \A j \in 1..(i - 1) : ValidSink(ListedSinks[j])
              IN  /\ lastRet["get_oms_mdsd_syslog_config"]
                         = Raise("LadLoggingConfigException",
                                 ExpectedSinkError(ListedSinks[k]))
                  /\ oms_mdsd_syslog_config = NoneVal
    /\ ( /\ fileLogs_truthy
         /\ Called("get_oms_mdsd_filelog_config")
         /\ \A f \in file_key_set : file_table_map[f] # <<>> \/ file_sinks_map[f] # <<>>
         /\ \E f \in file_key_set : \E i \in DOMAIN FileSinks(f) : ~ValidSink(FileSinks(f)[i]) )
           => /\ \E f \in file_key_set : \E i \in DOMAIN FileSinks(f) :
                     /\ ~ValidSink(FileSinks(f)[i])
                     /\ lastRet["get_oms_mdsd_filelog_config"]
                            = Raise("LadLoggingConfigException",
                                    ExpectedSinkError(FileSinks(f)[i]))
              /\ oms_mdsd_filelog_config = NoneVal

C4_Witness ==
    /\ ~SyslogOff
    /\ ListedSinks = << SinkB, SinkA >>
    /\ ValidSink(SinkB)
    /\ SinkA \in DOMAIN sinksConfig
    /\ sinksConfig[SinkA].type = "EventHub"
    /\ ~sinksConfig[SinkA].hasSasURL
    /\ lastRet["get_oms_mdsd_syslog_config"]
           = Raise("LadLoggingConfigException", SasURLNotSpecifiedMsg(SinkA))
    /\ oms_mdsd_syslog_config = NoneVal

\* C5: with syslog collection off, get_oms_rsyslog_config,
\* get_oms_syslog_ng_config and get_oms_fluentd_syslog_src_config return '';
\* with no file-log policy, get_oms_mdsd_filelog_config and
\* get_oms_fluentd_filelog_src_config return ''.
C5_GatedGeneratorsReturnEmpty ==
    /\ SyslogOff =>
           \A m \in {"get_oms_rsyslog_config", "get_oms_syslog_ng_config",
                     "get_oms_fluentd_syslog_src_config"} :
               Called(m) => lastRet[m] = Return(<<>>)
    /\ (~fileLogs.given \/ fileLogs.entries = <<>>) =>
           \A m \in {"get_oms_mdsd_filelog_config", "get_oms_fluentd_filelog_src_config"} :
               Called(m) => lastRet[m] = Return(<<>>)

C5_Witness ==
    /\ syslogEvents.given
    /\ syslogEvents.syslogEventConfiguration = <<>>
    /\ ~fileLogs.given
    /\ \A m \in {"get_oms_rsyslog_config", "get_oms_syslog_ng_config",
                 "get_oms_fluentd_syslog_src_config", "get_oms_mdsd_filelog_config",
                 "get_oms_fluentd_filelog_src_config"} : lastRet[m] = Return(<<>>)

\* The (facility, severity) pairs of the policy's mapping.
Pairs == syslogEvents.syslogEventConfiguration

InNameTable(n) == n \in DOMAIN syslog_name_to_rsyslog_name_map

----------------------------------------------------------------------------
\* Reading a generated document back: the elements it holds, in order.

\* Ascending sequence of a set of positions.
RECURSIVE Ascending(_)
Ascending(S) ==
    IF S = {} THEN <<>>
    ELSE LET m == CHOOSE x \in S : \A y \in S : x <= y
         IN  << m >> \o Ascending(S \ {m})

Occurrences(doc, tok) == Ascending({i \in DOMAIN doc : doc[i] = tok})

\* First position after i holding tok.
NextAfter(doc, i, tok) ==
    CHOOSE j \in (i + 1)..Len(doc) :
        doc[j] = tok /\ \A k \in (i + 1)..(j - 1) : doc[k] # tok

\* The elements "open name mid rest close" of doc.
Elements(doc, open, mid, close) ==
    LET occ == Occurrences(doc, open)
    IN  [n \in 1..Len(occ) |->
            LET j == NextAfter(doc, occ[n], mid)
                k == NextAfter(doc, j, close)
            IN  [name |-> SubSeq(doc, occ[n] + 1, j - 1),
                 rest |-> SubSeq(doc, j + 1, k - 1)]]

\* RouteEvent elements: eventName and the storeType attribute text.
RouteEvents(doc) ==
    Elements(doc, "    <RouteEvent dontUsePerNDayTable=\"true\" eventName=\"",
             "\" priority=\"High\" ", " />\n")

\* EventStreamingAnnotation elements: name and the Key's CDATA content.
StreamingAnnotations(doc) ==
    Elements(doc, "    <EventStreamingAnnotation name=\"",
             "\">\n       <EventPublisher>\n         <Content/>\n         <Key><![CDATA[",
             "]]></Key>\n       </EventPublisher>\n    </EventStreamingAnnotation>\n")

\* MdsdEventSource elements: source and the text of their routes.
MdsdEventSources(doc) ==
    Elements(doc, "      <MdsdEventSource source=\"", "\">\n        ",
             "\n      </MdsdEventSource>\n")

\* Names of the Source elements.
SourceNames(doc) ==
    LET occ == Occurrences(doc, "    <Source name=\"")
    IN  [n \in 1..Len(occ) |->
            SubSeq(doc, occ[n] + 1,
                   NextAfter(doc, occ[n], "\" dynamic_schema=\"true\" />\n") - 1)]

IsEventHub(n) == n \in DOMAIN sinksConfig /\ sinksConfig[n].type = "EventHub"

\* The route a validly defined sink must get.
ExpectedSinkRoute(n) ==
    [name |-> n,
     rest |-> IF sinksConfig[n].type = "JsonBlob"
              THEN << "storeType=\"JsonBlob\"" >> ELSE << "storeType=\"local\"" >>]

ExpectedSinkRoutes(names) == [i \in DOMAIN names |-> ExpectedSinkRoute(names[i])]

ExpectedAnnotations(names) ==
    LET eh == SelectSeq(names, IsEventHub)
    IN  [i \in DOMAIN eh |-> [name |-> eh[i], rest |-> sinksConfig[eh[i]].sasURL]]

\* What C7 says of the document returned for the listed sinks.
SyslogRoutesAsListed ==
    LET r == lastRet["get_oms_mdsd_syslog_config"]
    IN  /\ r.kind = "return"
        /\ Len(RouteEvents(r.val)) = Len(ListedSinks) + 1
        /\ RouteEvents(r.val)
               = << [name |-> LinuxSyslog, rest |-> <<>>] >> \o ExpectedSinkRoutes(ListedSinks)
        /\ StreamingAnnotations(r.val) = ExpectedAnnotations(ListedSinks)
        /\ oms_mdsd_syslog_config = Some(r.val)

\* C7 (as stated): for an enabled policy listing n >= 1 validly defined sinks
\* the document has the default LinuxSyslog route and then one route per
\* listed sink, in list order, and one annotation per EventHub sink.
C7_RoutesForAllValidSinks ==
    ( /\ ~SyslogOff
      /\ ListedSinks # <<>>
      /\ \A i \in DOMAIN ListedSinks : ValidSink(ListedSinks[i])
      /\ Called("get_oms_mdsd_syslog_config") )
        => SyslogRoutesAsListed

\* C7 (amended): the same, for lists that do not name 'LinuxSyslog' (which
\* is refused even when the registry defines a sink of that name).
C7_RoutesForValidUnreservedSinks ==
    ( /\ ~SyslogOff
      /\ ListedSinks # <<>>
      /\ \A i \in DOMAIN ListedSinks :
             ValidSink(ListedSinks[i]) /\ ListedSinks[i] # LinuxSyslog
      /\ Called("get_oms_mdsd_syslog_config") )
        => SyslogRoutesAsListed

C7_Witness ==
    /\ ~SyslogOff
    /\ ListedSinks = << SinkB, SinkA >>
    /\ IsEventHub(SinkA) /\ ValidSink(SinkA)
    /\ IsEventHub(SinkB) /\ ValidSink(SinkB)
    /\ lastRet["get_oms_mdsd_syslog_config"].kind = "return"
    /\ Len(RouteEvents(lastRet["get_oms_mdsd_syslog_config"].val)) = 3
    /\ Len(StreamingAnnotations(lastRet["get_oms_mdsd_syslog_config"].val)) = 2

\* The file paths in ascending order.
AscendingFiles ==
    CHOOSE o \in Orders(file_key_set) :
        \A i, j \in DOMAIN o : i < j => StrLess(o[i], o[j])

\* The entry of file f cannot be turned into routes.
EntryFails(f) ==
    \/ file_table_map[f] = <<>> /\ file_sinks_map[f] = <<>>
    \/ \E i \in DOMAIN FileSinks(f) : ~ValidSink(FileSinks(f)[i])

ExpectedFileError(f) ==
    IF file_table_map[f] = <<>> /\ file_sinks_map[f] = <<>>
    THEN NeitherTableNorSinksMsg(f)
    ELSE LET k == CHOOSE i \in DOMAIN FileSinks(f) :
                      /\ ~ValidSink(FileSinks(f)[i])
                      /\ \A j \in 1..(i - 1) : ValidSink(FileSinks(f)[j])
         IN  ExpectedSinkError(FileSinks(f)[k])

ExpectedFileRoutes(f) ==
    (IF file_table_map[f] # <<>>
     THEN << [name |-> file_table_map[f], rest |-> <<>>] >> ELSE <<>>)
    \o ExpectedSinkRoutes(FileSinks(f))

\* C8: for a non-empty file-log policy get_oms_mdsd_filelog_config visits the
\* paths in sorted order; the first file without table and sinks (or with an
\* unresolvable sink) makes the whole call raise and store nothing; otherwise
\* the document has one Source and one MdsdEventSource per file, in that
\* order, whose routes are the table route (if a table is given) followed by
\* one route per listed sink in list order.
C8_FilelogPerFileRoutes ==
    (fileLogs.given /\ fileLogs.entries # <<>> /\ Called("get_oms_mdsd_filelog_config"))
        => LET r == lastRet["get_oms_mdsd_filelog_config"]
               order == AscendingFiles
           IN  IF \E i \in DOMAIN order : EntryFails(order[i])
               THEN LET k == CHOOSE i \in DOMAIN order :
                                 /\ EntryFails(order[i])
                                 /\ \A j \in 1..(i - 1) : ~EntryFails(order[j])
                    IN  /\ r = Raise("LadLoggingConfigException",
                                     ExpectedFileError(order[k]))
                        /\ oms_mdsd_filelog_config = NoneVal
               ELSE /\ r.kind = "return"
                    /\ SourceNames(r.val) = [i \in DOMAIN order |-> source_name_of(order[i])]
                    /\ Len(MdsdEventSources(r.val)) = Len(order)
                    /\ \A i \in DOMAIN order :
                           /\ MdsdEventSources(r.val)[i].name = source_name_of(order[i])
                           /\ RouteEvents(MdsdEventSources(r.val)[i].rest)
                                  = ExpectedFileRoutes(order[i])
                    /\ oms_mdsd_filelog_config = Some(r.val)

C8_Witness ==
    /\ fileLogs.given
    /\ Len(fileLogs.entries) = 2
    /\ \A f \in file_key_set : file_table_map[f] # <<>> /\ Len(FileSinks(f)) = 2
    /\ file_keys # AscendingFiles
    /\ lastRet["get_oms_mdsd_filelog_config"].kind = "return"
    /\ Len(RouteEvents(lastRet["get_oms_mdsd_filelog_config"].val)) = 6

\* C9: in every document get_oms_mdsd_filelog_config returns, the Source
\* names derived from the file paths are pairwise distinct.
C9_SourceNamesDistinct ==
    ( /\ lastRet["get_oms_mdsd_filelog_config"].kind = "return"
      /\ lastRet["get_oms_mdsd_filelog_config"].val # <<>> )
        => LET names == SourceNames(lastRet["get_oms_mdsd_filelog_config"].val)
           IN  /\ Len(names) = Cardinality(file_key_set)
               /\ \A i, j \in DOMAIN names : i # j => names[i] # names[j]


----------------------------------------------------------------------------
\* copy_sub_elems.

\* The tree with the children of the element at pos replaced.
RECURSIVE WithChildren(_, _, _)
WithChildren(elem, pos, children) ==
    IF pos = <<>> THEN [elem EXCEPT !.children = children]
    ELSE [elem EXCEPT !.children[pos[1]] = WithChildren(@, Tail(pos), children)]

\* C10 (as stated): a step of copy_sub_elems leaves the destination unchanged
\* and raises nothing when the path is absent from the source; otherwise it
\* raises nothing and every child of the source element is then a child of
\* the destination element at the path.
C10_CopyAlwaysAppends ==
    [][ LET path == copyRet'.path
            s == find(src_xml, path)
        IN  IF ~s.found
            THEN dst_xml' = dst_xml /\ copyRet'.out.kind = "return"
            ELSE /\ copyRet'.out.kind = "return"
                 /\ \A i \in DOMAIN ElemAt(src_xml, s.pos).children :
                        /\ find(dst_xml', path).found
                        /\ \E j \in DOMAIN ElemAt(dst_xml', find(dst_xml', path).pos).children :
                               ElemAt(dst_xml', find(dst_xml', path).pos).children[j]
                                   = ElemAt(src_xml, s.pos).children[i]
      ]_vars

\* C10 (amended): path absent from the source: destination unchanged, no
\* error.  Path present in both: the source element's children are appended,
\* in source order, after the destination element's children and nothing else
\* changes.  Path present in the source only: destination unchanged, and the
\* call raises AttributeError exactly when the source element has a child.
C10_CopyAppendsWhereDestinationExists ==
    [][ LET path == copyRet'.path
            s == find(src_xml, path)
            d == find(dst_xml, path)
        IN  IF ~s.found
            THEN dst_xml' = dst_xml /\ copyRet'.out.kind = "return"
            ELSE IF d.found
            THEN /\ copyRet'.out.kind = "return"
                 /\ ElemAt(dst_xml', d.pos).children
                        = ElemAt(dst_xml, d.pos).children \o ElemAt(src_xml, s.pos).children
                 /\ WithChildren(dst_xml', d.pos, ElemAt(dst_xml, d.pos).children) = dst_xml
            ELSE /\ dst_xml' = dst_xml
                 /\ IF ElemAt(src_xml, s.pos).children = <<>>
                    THEN copyRet'.out.kind = "return"
                    ELSE copyRet'.out.kind = "raise" /\ copyRet'.out.exc = "AttributeError"
      ]_vars

C10_Witness ==
    /\ copyRet.path = << "Events", "MdsdEvents" >>
    /\ copyRet.out.kind = "return"
    /\ ncopies = 1
    /\ find(dst_xml, copyRet.path).found
    /\ find(src_xml, copyRet.path).found
    /\ Len(dst_xml.children) = 3
    /\ ElemAt(dst_xml, find(dst_xml, copyRet.path).pos).children
           = << Leaf("MdsdEventSource", "d1"), Leaf("MdsdEventSource", "d2"),
                Leaf("MdsdEventSource", "s1") >>

----------------------------------------------------------------------------
\* MachineIdentity properties.

\* C11: whenever the system identity file does not exist, current_identity
\* returns None and save_identity leaves the persisted-identity store as it
\* was: stored_identity gives after the save what it gave before it (None if
\* nothing was ever persisted, the previously persisted GUID otherwise).
C11_MissingSourceSavesNothing ==
    /\ (idRet.op = "current_identity" /\ ~idRet.sysExisted
            => idRet.out = Return(NoneVal))
    /\ (lastSave.ran /\ ~lastSave.sysExisted
            => stored_identity_of(store_file) = lastSave.storedBefore)

----------------------------------------------------------------------------
\* Severity "NONE".

\* The mapping with the facilities of minimum severity "NONE" left out.
WithoutNone(pairs) == SelectSeq(pairs, LAMBDA p : p[2] # "NONE")

HasNoneSeverity ==
    syslogEvents.given /\ \E i \in DOMAIN Pairs : Pairs[i][2] = "NONE"

\* What the two getters give for the policy whose mapping is pairs.
RsyslogConfigFor(pairs) ==
    IF pairs = <<>> THEN Return(<<>>)
    ELSE LET lines == RsyslogLines(pairs)
         IN  IF lines.kind = "raise" THEN lines
             ELSE Return(Join(lines.val, << "\n" >>) \o << "\n" >>)

SyslogNgConfigFor(pairs) ==
    IF pairs = <<>> THEN Return(<<>>)
    ELSE LET lines == SyslogNgLines(pairs)
         IN  IF lines.kind = "raise" THEN lines
             ELSE Return(Join(lines.val, << "\n" >>) \o << "\n" >>)

\* C13: a facility whose minimum severity is "NONE" is accepted and counts as
\* not specified: get_oms_rsyslog_config and get_oms_syslog_ng_config give
\* what they give for the policy with that entry removed, and the entry
\* raises no error.
C13_NoneSeverityIsIgnored ==
    HasNoneSeverity =>
        /\ (Called("get_oms_rsyslog_config")
                => lastRet["get_oms_rsyslog_config"] = RsyslogConfigFor(WithoutNone(Pairs)))
        /\ (Called("get_oms_syslog_ng_config")
                => lastRet["get_oms_syslog_ng_config"]
                       = SyslogNgConfigFor(WithoutNone(Pairs)))

----------------------------------------------------------------------------
\* Computation and caching.

\* C14: each artifact is computed at most once per instance: the generation
\* logic runs on the first successful call only, and every later call
\* returns the cached value without recomputation, also when the value is ''.
C14_ComputedAtMostOnce == repeated => ~generated

\* An earlier call of m returned a non-empty value.
ReturnedNonEmpty(m) == firstReturn[m].some /\ firstReturn[m].val # <<>>

\* C14 (amended): a call of get_oms_rsyslog_config, get_oms_syslog_ng_config,
\* get_oms_mdsd_syslog_config or get_oms_mdsd_filelog_config computes the
\* artifact exactly when no earlier call of that method returned a non-empty
\* value (None and '' both fail the "if not" test); once a non-empty value
\* has been returned, later calls do not recompute.  The get_oms_fluentd_*
\* methods keep no cache and compute on every call.
C14_ComputedUntilNonEmpty ==
    [][ /\ get_oms_rsyslog_config
            => (generated' <=> ~ReturnedNonEmpty("get_oms_rsyslog_config"))
        /\ get_oms_syslog_ng_config
            => (generated' <=> ~ReturnedNonEmpty("get_oms_syslog_ng_config"))
        /\ get_oms_mdsd_syslog_config
            => (generated' <=> ~ReturnedNonEmpty("get_oms_mdsd_syslog_config"))
        /\ get_oms_mdsd_filelog_config
            => (generated' <=> ~ReturnedNonEmpty("get_oms_mdsd_filelog_config"))
        /\ get_oms_fluentd_syslog_src_config => generated'
        /\ get_oms_fluentd_filelog_src_config => generated'
        /\ get_oms_fluentd_out_mdsd_config => generated' ]_vars

\* get_oms_rsyslog_config, the only method called so far, returned '' before
\* and its latest call computed '' again.
C14_Witness ==
    /\ repeated
    /\ generated
    /\ firstReturn["get_oms_rsyslog_config"] = Some(<<>>)
    /\ oms_rsyslog_config = Some(<<>>)
    /\ \A m \in Methods \ {"get_oms_rsyslog_config"} : ~Called(m)

----------------------------------------------------------------------------
\* The empty sinks string.

\* The document of an enabled policy that lists no sink.
DefaultRouteOnlyDocument ==
    mdsd_sources_events_config_template(
        mdsd_per_source_config_template(<< "mdsd.syslog" >>),
        mdsd_per_event_source_config_template(
            << "mdsd.syslog" >>,
            mdsd_per_routeevent_config_template(<< "LinuxSyslog" >>, <<>>)),
        <<>>)

\* C15: for an enabled syslog policy whose sinks field is present and is '',
\* get_oms_mdsd_syslog_config raises no error and returns the document with
\* the default 'LinuxSyslog' route only and no streaming annotation, as when
\* the sinks field is omitted.
C15_EmptySinksGivesDefaultRoute ==
    ( /\ ~SyslogOff
      /\ syslogEvents.hasSinks
      /\ syslogEvents.sinks = <<>>
      /\ Called("get_oms_mdsd_syslog_config") )
        => LET r == lastRet["get_oms_mdsd_syslog_config"]
           IN  /\ r.kind = "return"
               /\ r.val = DefaultRouteOnlyDocument
               /\ RouteEvents(r.val) = << [name |-> LinuxSyslog, rest |-> <<>>] >>
               /\ StreamingAnnotations(r.val) = <<>>

----------------------------------------------------------------------------
\* WAAgentUtil properties.

\* C16: after InitExtensionEventLog(n) with a name n that is not None, a
\* later AddExtensionEvent call that omits the name argument forwards exactly
\* one event to the agent's AddExtensionEvent, under the name n; a call whose
\* name is None (given as None, or omitted with no name initialised) forwards
\* nothing.
C16_OmittedNameIsInitialisedName ==
    lastAdd.called =>
        /\ (~lastAdd.name.given /\ lastAdd.initName.some
                => /\ Len(forwarded) = lastAdd.before + 1
                   /\ forwarded[Len(forwarded)].name = lastAdd.initName.val)
        /\ ((lastAdd.name.given /\ ~lastAdd.name.val.some)
                \/ (~lastAdd.name.given /\ ~lastAdd.initName.some)
                => Len(forwarded) = lastAdd.before)

====
